---- MODULE Spec2Model ----
(***************************************************************************)
(* Model of the result-query path of pydpf-post:                           *)
(*   ModalMechanicalSimulation facade methods -> _get_result ->            *)
(*   _build_selection -> _get_result_workflow -> engine evaluation ->      *)
(*   DataFrame, and of the Selection object the path builds; of the        *)
(*   DataFrame object; and of the entry points load_solution and           *)
(*   create_path_on_coordinates.                                           *)
(* The engine (DPF operators and workflows) is an opaque collaborator: it  *)
(* is modelled by the calls made to it and by a nondeterministic outcome.  *)
(***************************************************************************)
EXTENDS Integers, Sequences, FiniteSets, TLC

\* ------------------------------------------------------------------ bounds
\* number of sets (modes) stored in the result file
MaxSets == 2
\* largest number of stages of a cyclic model (0: not cyclic, 1: single stage)
MaxStages == 2
\* mesh entity ids are 1..MaxId
MaxId == 2
\* how many evaluations of one unmodified Selection are followed
MaxEvals == 2
\* the most fields a fields container holds
MaxFields == 2
\* the most points a path is built from
MaxPoints == 2

\* ------------------------------------------------------- python values
\* An optional int-or-list argument: None, an int, or a list of ints.
NoneV == [k |-> "none", v |-> <<>>]
IntV(i) == [k |-> "int", v |-> <<i>>]
ListV(s) == [k |-> "list", v |-> s]

IsNone(x) == x.k = "none"

\* Python truthiness of an optional int-or-list value (used by `x if x else y`).
Truthy(x) ==
    CASE x.k = "none" -> FALSE
      [] x.k = "int" -> x.v[1] # 0
      [] x.k = "list" -> Len(x.v) > 0

\* bool + bool of the Python source
B2I(b) == IF b THEN 1 ELSE 0

Range(s) == {s[i] : i \in 1..Len(s)}

UpTo(n) == [i \in 1..n |-> i]

\* A skin / external_layer argument: False, True, or a list of element ids.
FlagFalse == [k |-> "bool", b |-> FALSE, v |-> <<>>]
FlagTrue == [k |-> "bool", b |-> TRUE, v |-> <<>>]
FlagList(s) == [k |-> "list", b |-> FALSE, v |-> s]

FlagTruthy(f) == IF f.k = "bool" THEN f.b ELSE Len(f.v) > 0

\* An expand_cyclic argument: a bool, a flat list of sector numbers, or a list
\* of n lists of sector numbers (one list per stage).
EcBool(b) == [k |-> "bool", b |-> b, sectors |-> <<>>, n |-> 0]
EcFlat(s) == [k |-> "flat", b |-> FALSE, sectors |-> s, n |-> 0]
EcNested(n, s) == [k |-> "nested", b |-> FALSE, sectors |-> s, n |-> n]

\* ------------------------------------------------------- input domains
TimeArgs == {NoneV, IntV(0), IntV(1), ListV(<<>>), ListV(UpTo(MaxSets))}

FrequencyArgs == {NoneV, ListV(<<1>>)}

IdArgs == {NoneV, ListV(UpTo(MaxId))}

NamedSelectionArgs == {NoneV, ListV(<<1>>)}

FlagArgs == {FlagFalse, FlagTrue, FlagList(UpTo(MaxId))}

ComponentArgs == {NoneV, ListV(<<1>>)}

PhaseArgs == {NoneV, IntV(45)}

\* the caller leaves expand_cyclic out of the call
EcOmitted == [k |-> "omitted", b |-> FALSE, sectors |-> <<>>, n |-> 0]

ExpandCyclicArgs ==
    {EcBool(FALSE), EcBool(TRUE), EcFlat(<<1, 2>>)}
        \cup {EcNested(n, <<1, 2>>) : n \in 1..MaxStages}

\* ---------------------------------------------------------- Selection
\* A criterion of a Selection. Spatial kinds: nodes, elements, named_selection,
\* skin, external_layer, faces. Temporal kinds: set_ids, indices, times,
\* all_sets.
Crit(kind, ids) == [kind |-> kind, ids |-> ids]

\* A Selection: the spatial and the temporal criteria it holds.
Sel(sp, tm) == [k |-> "selection", spatial |-> sp, temporal |-> tm]

NoSelection == [k |-> "none", spatial |-> {}, temporal |-> {}]

\* The Selection objects a caller passes as the `selection` argument.
SelectionArgs ==
    {NoSelection,
     Sel({Crit("nodes", UpTo(MaxId))}, {Crit("set_ids", <<MaxSets>>)}),
     Sel({Crit("skin", <<>>)}, {Crit("all_sets", <<>>)})}

\* Selection.outputs_mesh: a skin or external-layer criterion is active.
outputs_mesh(s) ==
    \E c \in s.spatial : c.kind \in {"skin", "external_layer"}

\* ------------------------------------------------------------- facades
Facade(name, base, loc, cat, comp, nrm, nid) ==
    [name |-> name, base_name |-> base, location |-> loc, category |-> cat,
     components |-> comp, norm |-> nrm, node_ids |-> nid]

\* mutant: the equivalent and scalar methods forward the caller's components
Facades_ScalarForwardsComponents ==
    {[name |-> "displacement", base_name |-> "U", location |-> "Nodal",
      category |-> "vector", components |-> TRUE, norm |-> TRUE,
      node_ids |-> TRUE],
     [name |-> "stress_eqv_von_mises_nodal", base_name |-> "S",
      location |-> "Nodal", category |-> "equivalent", components |-> TRUE,
      norm |-> FALSE, node_ids |-> TRUE],
     [name |-> "elemental_volume", base_name |-> "ENG_VOL",
      location |-> "Elemental", category |-> "scalar", components |-> TRUE,
      norm |-> FALSE, node_ids |-> FALSE]}

\* The facade methods modelled: one per result category, with and without the
\* node_ids / components / norm parameters. The three flags say whether the
\* method forwards the caller's value (TRUE) or a constant None / default.
Facades ==
    {Facade("displacement", "U", "Nodal", "vector", TRUE, TRUE, TRUE),
     Facade("stress_elemental", "S", "Elemental", "matrix", TRUE, FALSE, FALSE),
     Facade("stress_principal_nodal", "S", "Nodal", "principal", TRUE, FALSE, TRUE),
     Facade("stress_eqv_von_mises_nodal", "S", "Nodal", "equivalent", FALSE, FALSE, TRUE),
     Facade("elemental_volume", "ENG_VOL", "Elemental", "scalar", FALSE, FALSE, FALSE)}

NoFacade == Facade("", "", "", "", FALSE, FALSE, FALSE)

\* ------------------------------------------------------------- state
VARIABLES
    sim,        \* the simulation: [nStages, nSets]
    pc,         \* position of the running result query in _get_result
    method,     \* the facade method called
    targs,      \* temporal arguments as the caller gave them
    set_ids,    \* local set_ids of _get_result (after the default is applied)
    sargs,      \* spatial and mesh-reduction arguments as the caller gave them
    fwd,        \* keyword arguments _get_result passed to _build_selection
    selection,  \* the Selection returned by _build_selection
    rescoping,  \* whether _build_selection returned a rescoping
    rargs,      \* components and norm as received by _get_result
    cargs,      \* expand_cyclic and phase_angle_cyclic as the caller gave them
    wfs,        \* the set of sub-workflows _create_result_workflows created
    wfin,       \* cyclic inputs connected to the initial result workflow
    chain,      \* stages chained into the output workflow, in order
    trace,      \* calls made to collaborators by the running query, in order
    fc,         \* fields container returned by the evaluation
    submesh,    \* companion mesh fetched from the selection workflow
    df,         \* the DataFrame returned
    outcome,    \* "none", "DataFrame", or the exception raised
    sel,        \* a Selection object in the hands of a caller
    selCall,    \* the last select_* call made on sel: its name, its criterion
                \* and the Selection as it was before the call
    selErr,     \* what that call raised ("none" when it returned)
    evals,      \* the evaluations of sel made since it was last modified,
                \* in order: how it was evaluated, on which Selection, and
                \* what came back
    frame,      \* a DataFrame object in the hands of a caller (its attributes)
    parentAlive,\* whether the simulation frame refers to weakly still exists
    display,    \* the module-level display_width and display_max_colwidth
    dcall,      \* the last operation on frame: what it did and gave back
    ld,         \* a load_solution call: its arguments, the file it opens, its
                \* locals, what it printed and what it returned or raised
    path        \* a DpfPath construction: the coordinates given, the field
                \* the path holds, and what was raised or read back

\* the variables of the Selection object
svars == <<sel, selCall, selErr, evals>>

\* the variables of the running result query
qvars == <<pc, method, targs, set_ids, sargs, fwd, selection, rescoping,
           rargs, cargs, wfs, wfin, chain, trace, fc, submesh, df, outcome>>

\* the variables of the DataFrame object
dvars == <<frame, parentAlive, display, dcall>>

\* the variables of the load_solution and create_path_on_coordinates entry
\* points
legacy == <<ld, path>>

vars == <<sim, qvars, svars, dvars, legacy>>

\* ---------------------------------------------------- initial values
NoTArgs ==
    [set_ids |-> NoneV, all_sets |-> FALSE, frequencies |-> NoneV,
     modes |-> NoneV, selection |-> NoSelection]

NoSArgs ==
    [node_ids |-> NoneV, element_ids |-> NoneV, named_selections |-> NoneV,
     external_layer |-> FlagFalse, skin |-> FlagFalse]

NoFwd ==
    [called |-> FALSE, selection |-> NoSelection, set_ids |-> NoneV,
     times |-> NoneV, load_steps |-> NoneV, all_sets |-> FALSE,
     node_ids |-> NoneV, element_ids |-> NoneV, named_selections |-> NoneV,
     external_layer |-> FlagFalse, skin |-> FlagFalse]

NoRArgs == [components |-> NoneV, norm |-> FALSE]

NoCArgs ==
    [given |-> EcOmitted, expand_cyclic |-> EcBool(TRUE),
     phase_angle_cyclic |-> NoneV]

NoWfIn ==
    [connected |-> FALSE, expand_cyclic |-> EcBool(TRUE),
     phase_angle_cyclic |-> NoneV]

NoFc == [present |-> FALSE, cols |-> <<>>, raised |-> "none"]

NoDf == [present |-> FALSE, cols |-> <<>>, submesh |-> "None"]

Idle ==
    /\ pc = "idle"
    /\ method = NoFacade
    /\ targs = NoTArgs
    /\ set_ids = NoneV
    /\ sargs = NoSArgs
    /\ fwd = NoFwd
    /\ selection = NoSelection
    /\ rescoping = FALSE
    /\ rargs = NoRArgs
    /\ cargs = NoCArgs
    /\ wfs = {}
    /\ wfin = NoWfIn
    /\ chain = <<>>
    /\ trace = <<>>
    /\ fc = NoFc
    /\ submesh = "None"
    /\ df = NoDf
    /\ outcome = "none"

\* no DataFrame constructed yet
NoFrame ==
    [exists |-> FALSE, _fc |-> <<>>, _index |-> "None", _columns |-> "None",
     has_parent |-> FALSE, _str |-> <<>>, _last_display_width |-> 0,
     _last_display_max_colwidth |-> 0]

\* display_width = 80; display_max_colwidth = 10
display_width == 80
display_max_colwidth == 10

\* an operation on the DataFrame and everything it did
DCall(op) ==
    [op |-> op, raised |-> "none", ret |-> <<>>, deform |-> FALSE,
     lookup |-> "not_tried", warned |-> FALSE, animated |-> FALSE,
     deform_by |-> "None", plotted |-> <<>>, data |-> "", rendered |-> FALSE]

\* no load_solution call is running
NoLoad ==
    [pc |-> "idle", physics_arg |-> "None", analysis_arg |-> "None",
     file |-> [physics |-> "", analysis |-> ""],
     physics_type |-> "None", analysis_type |-> "None",
     read |-> {}, printed |-> {}, ret |-> "None", raised |-> "none",
     result |-> [quantity |-> "", operator_name |-> "", created |-> FALSE,
                 raised |-> "none", evaluated |-> FALSE],
     definition |-> [location |-> "", class |-> ""]]

NoField == [nature |-> "", location |-> "", ids |-> <<>>]

NoPath ==
    [called |-> FALSE, coordinates |-> [kind |-> "", items |-> <<>>,
                                        shape |-> <<>>, points |-> 0,
                                        field |-> NoField],
     built |-> FALSE, _field |-> NoField, raised |-> "none", read |-> FALSE]

NoCall == [op |-> "", crit |-> Crit("", <<>>), before |-> Sel({}, {})]

Init ==
    /\ sim \in [nStages : 0..MaxStages, nSets : {MaxSets}]
    /\ Idle
    /\ sel = Sel({}, {})
    /\ selCall = NoCall
    /\ selErr = "none"
    /\ evals = <<>>
    /\ frame = NoFrame
    /\ parentAlive = FALSE
    /\ display = [width |-> display_width, max_colwidth |-> display_max_colwidth]
    /\ dcall = DCall("")
    /\ ld = NoLoad
    /\ path = NoPath

\* ------------------------------------------------------ facade call
\* A facade method is called: it does nothing but forward to _get_result.
Call(f) ==
    /\ pc = "idle"
    /\ pc' = "validate"
    /\ method' = f
    /\ UNCHANGED <<legacy, dvars, svars, sim, targs, set_ids, sargs, fwd, selection, rescoping, rargs,
                   cargs, wfs, wfin, chain, trace, fc, submesh, df, outcome>>

\* ------------------------------------------- _get_result: validation
\* tot of _get_result: how many of the temporal arguments are supplied.
tot(a) ==
    B2I(~IsNone(a.set_ids))
        + B2I(a.all_sets = TRUE)
        + B2I(~IsNone(a.frequencies))
        + B2I(~IsNone(a.modes))
        + B2I(a.selection.k # "none")

\* mutant: the check lets two arguments through
TemporalConflict_Lax(a) == tot(a) > 2

\* if tot > 1: raise ValueError
TemporalConflict(a) == tot(a) > 1

\* mutant: no default when nothing is supplied
DefaultSetIds_Missing(a) == a.set_ids

\* elif tot == 0: set_ids = 1
DefaultSetIds(a) == IF tot(a) = 0 THEN IntV(1) ELSE a.set_ids

\* mutant: the arguments are checked after the Selection is built
Validate_Late ==
    /\ pc = "validate"
    /\ \E s \in TimeArgs, al \in BOOLEAN, fr \in FrequencyArgs, md \in TimeArgs,
          sl \in SelectionArgs :
          LET a == [set_ids |-> s, all_sets |-> al, frequencies |-> fr,
                    modes |-> md, selection |-> sl]
          IN  /\ targs' = a
              /\ IF TemporalConflict(a)
                    THEN /\ outcome' = "ValueError"
                         /\ pc' = "done"
                         /\ set_ids' = a.set_ids
                         /\ trace' = Append(trace, "_build_selection")
                    ELSE /\ outcome' = outcome
                         /\ pc' = "build_selection"
                         /\ set_ids' = DefaultSetIds(a)
                         /\ trace' = trace
    /\ UNCHANGED <<legacy, dvars, svars, sim, method, sargs, fwd, selection, rescoping, rargs, cargs,
                   wfs, wfin, chain, fc, submesh, df>>

Validate ==
    /\ pc = "validate"
    /\ \E s \in TimeArgs, al \in BOOLEAN, fr \in FrequencyArgs, md \in TimeArgs,
          sl \in SelectionArgs :
          LET a == [set_ids |-> s, all_sets |-> al, frequencies |-> fr,
                    modes |-> md, selection |-> sl]
          IN  /\ targs' = a
              /\ IF TemporalConflict(a)
                    THEN /\ outcome' = "ValueError"
                         /\ pc' = "done"
                         /\ set_ids' = a.set_ids
                    ELSE /\ outcome' = outcome
                         /\ pc' = "build_selection"
                         /\ set_ids' = DefaultSetIds(a)
    /\ UNCHANGED <<legacy, dvars, svars, sim, method, sargs, fwd, selection, rescoping, rargs, cargs,
                   wfs, wfin, chain, trace, fc, submesh, df>>

\* ------------------------------------- _get_result: _build_selection
\* mutant: node_ids is not forwarded
BuildSelectionKwargs_DropNodeIds(a, sids, sa) ==
    [called |-> TRUE,
     selection |-> a.selection,
     set_ids |-> IF Truthy(sids) THEN sids ELSE a.modes,
     times |-> a.frequencies,
     load_steps |-> NoneV,
     all_sets |-> a.all_sets,
     node_ids |-> NoneV,
     element_ids |-> sa.element_ids,
     named_selections |-> sa.named_selections,
     external_layer |-> sa.external_layer,
     skin |-> sa.skin]

\* mutant: skin is not forwarded
BuildSelectionKwargs_DropSkin(a, sids, sa) ==
    [called |-> TRUE,
     selection |-> a.selection,
     set_ids |-> IF Truthy(sids) THEN sids ELSE a.modes,
     times |-> a.frequencies,
     load_steps |-> NoneV,
     all_sets |-> a.all_sets,
     node_ids |-> sa.node_ids,
     element_ids |-> sa.element_ids,
     named_selections |-> sa.named_selections,
     external_layer |-> sa.external_layer,
     skin |-> FlagFalse]

\* The keyword arguments of the self._build_selection(...) call.
BuildSelectionKwargs(a, sids, sa) ==
    [called |-> TRUE,
     selection |-> a.selection,
     set_ids |-> IF Truthy(sids) THEN sids ELSE a.modes,
     times |-> a.frequencies,
     load_steps |-> NoneV,
     all_sets |-> a.all_sets,
     node_ids |-> sa.node_ids,
     element_ids |-> sa.element_ids,
     named_selections |-> sa.named_selections,
     external_layer |-> sa.external_layer,
     skin |-> sa.skin]

\* Group A of the result methods: node_ids, element_ids, named_selections and
\* selection are mutually exclusive.
SpatialConflict(kw) ==
    B2I(~IsNone(kw.node_ids))
        + B2I(~IsNone(kw.element_ids))
        + B2I(~IsNone(kw.named_selections))
        + B2I(kw.selection.k # "none") > 1

\* The temporal criterion built from the keyword arguments; with none of
\* them given, the first available set.
TemporalCriterion(kw) ==
    IF kw.all_sets THEN Crit("all_sets", <<>>)
    ELSE IF ~IsNone(kw.set_ids) THEN Crit("set_ids", kw.set_ids.v)
    ELSE IF ~IsNone(kw.times) THEN Crit("times", kw.times.v)
    ELSE Crit("set_ids", <<1>>)

\* The spatial criterion built from the keyword arguments; none of them
\* given selects the whole mesh (no criterion).
SpatialCriterion(kw) ==
    IF FlagTruthy(kw.skin) THEN {Crit("skin", kw.skin.v)}
    ELSE IF FlagTruthy(kw.external_layer)
        THEN {Crit("external_layer", kw.external_layer.v)}
    ELSE IF ~IsNone(kw.named_selections)
        THEN {Crit("named_selection", kw.named_selections.v)}
    ELSE IF ~IsNone(kw.element_ids) THEN {Crit("elements", kw.element_ids.v)}
    ELSE IF ~IsNone(kw.node_ids) THEN {Crit("nodes", kw.node_ids.v)}
    ELSE {}

\* A rescoping is returned when ids were requested on a reduced mesh.
NeedsRescoping(kw) ==
    /\ FlagTruthy(kw.skin) \/ FlagTruthy(kw.external_layer)
    /\ \/ ~IsNone(kw.node_ids)
       \/ ~IsNone(kw.element_ids)
       \/ ~IsNone(kw.named_selections)

\* _build_selection: [err, selection, rescoping].
_build_selection(kw) ==
    IF SpatialConflict(kw)
        THEN [err |-> "ValueError", selection |-> NoSelection, rescoping |-> FALSE]
    ELSE IF kw.selection.k # "none"
        THEN [err |-> "none", selection |-> kw.selection, rescoping |-> FALSE]
    ELSE IF FlagTruthy(kw.skin) /\ FlagTruthy(kw.external_layer)
        THEN [err |-> "ConfigurationError", selection |-> NoSelection,
              rescoping |-> FALSE]
    ELSE [err |-> "none",
          selection |-> Sel(SpatialCriterion(kw), {TemporalCriterion(kw)}),
          rescoping |-> NeedsRescoping(kw)]

BuildSelection ==
    /\ pc = "build_selection"
    /\ \E nid \in IdArgs, eid \in IdArgs, ns \in NamedSelectionArgs,
          el \in FlagArgs, sk \in FlagArgs :
          LET sa == [node_ids |-> IF method.node_ids THEN nid ELSE NoneV,
                     element_ids |-> eid, named_selections |-> ns,
                     external_layer |-> el, skin |-> sk]
              kw == BuildSelectionKwargs(targs, set_ids, sa)
              r == _build_selection(kw)
          IN  /\ sargs' = sa
              /\ fwd' = kw
              /\ trace' = Append(trace, "_build_selection")
              /\ selection' = r.selection
              /\ rescoping' = r.rescoping
              /\ IF r.err # "none"
                    THEN outcome' = r.err /\ pc' = "done"
                    ELSE outcome' = outcome /\ pc' = "create_workflows"
    /\ UNCHANGED <<legacy, dvars, svars, sim, method, targs, set_ids, rargs, cargs, wfs, wfin, chain,
                   fc, submesh, df>>

\* ---------------------------------------------- _get_result_workflow
\* The sub-workflows _create_result_workflows creates for a request.
_create_result_workflows(cat, components, norm, resc) ==
    {"initial_result", "averaging"}
        \cup (IF cat = "principal" THEN {"principal"} ELSE {})
        \cup (IF cat = "equivalent" THEN {"equivalent"} ELSE {})
        \cup (IF cat \in {"vector", "matrix"} /\ ~IsNone(components)
                THEN {"component_extraction"} ELSE {})
        \cup (IF norm THEN {"norm"} ELSE {})
        \cup (IF resc THEN {"rescoping"} ELSE {})

CreateWorkflows ==
    /\ pc = "create_workflows"
    /\ \E c \in ComponentArgs, n \in BOOLEAN :
          LET ra == [components |-> IF method.components THEN c ELSE NoneV,
                     norm |-> IF method.norm THEN n ELSE FALSE]
          IN  /\ rargs' = ra
              /\ wfs' = _create_result_workflows(method.category, ra.components,
                                                 ra.norm, rescoping)
    /\ trace' = Append(trace, "_create_result_workflows")
    /\ pc' = "connect_inputs"
    /\ UNCHANGED <<legacy, dvars, svars, sim, method, targs, set_ids, sargs, fwd, selection, rescoping,
                   cargs, wfin, chain, fc, submesh, df, outcome>>

\* The sector specification must have one entry per stage.
_check_stage_count(ec, nStages) == ec.n = nStages

\* mutant: a flat list of sector numbers is refused on a multi-stage model
_connect_cyclic_inputs_NoFlat(ec, nStages) ==
    \/ ec.k = "bool"
    \/ ec.k = "flat" /\ nStages < 2
    \/ ec.k = "nested" /\ _check_stage_count(ec, nStages)

\* Whether the cyclic inputs accept an expand_cyclic value on a cyclic model
\* with nStages stages: a bool and a flat list of sector numbers always, a list
\* of lists when it has one list per stage.
_connect_cyclic_inputs(ec, nStages) ==
    \/ ec.k \in {"bool", "flat"}
    \/ ec.k = "nested" /\ _check_stage_count(ec, nStages)

\* mutant: the skin of the whole mesh is refused like the other reductions
SkinOnCyclicSupported_Never(s) == FALSE

\* The mesh reduction that goes with cyclic expansion: the skin of the whole
\* mesh (skin=True), as in the cyclic mesh-skin example, which asks for
\* skin=True together with expand_cyclic=[1] and plots the result.
SkinOnCyclicSupported(s) ==
    \E c \in s.spatial : c.kind = "skin" /\ c.ids = <<>>

\* Mesh reduction is policy-checked against cyclic expansion: a reduction
\* other than the supported one, asked for together with cyclic expansion on
\* a cyclic model, fails with ConfigurationError.
_check_mesh_reduction_cyclic(s, ec, nStages) ==
    IF /\ nStages > 0
       /\ ec # EcBool(FALSE)
       /\ outputs_mesh(s)
       /\ ~SkinOnCyclicSupported(s)
        THEN "ConfigurationError"
        ELSE "none"

\* What connecting the inputs raises: the cyclic inputs are checked first,
\* then the mesh reduction.
_connect_workflow_inputs(s, ec, nStages) ==
    IF nStages > 0 /\ ~_connect_cyclic_inputs(ec, nStages)
        THEN "ValueError"
        ELSE _check_mesh_reduction_cyclic(s, ec, nStages)

\* The keyword arguments expand_cyclic and phase_angle_cyclic of the
\* _connect_workflow_inputs(...) call.
ConnectKwargs(ca) ==
    [connected |-> TRUE, expand_cyclic |-> ca.expand_cyclic,
     phase_angle_cyclic |-> ca.phase_angle_cyclic]

\* mutant: cyclic expansion is off unless asked for
expand_cyclic_default_Off == EcBool(FALSE)

\* expand_cyclic: Union[bool, List[Union[int, List[int]]]] = True, in the
\* signature of every facade method
expand_cyclic_default == EcBool(TRUE)

\* The value the facade method's parameter expand_cyclic is bound to.
BindExpandCyclic(given) ==
    IF given = EcOmitted THEN expand_cyclic_default ELSE given

ConnectWorkflowInputs ==
    /\ pc = "connect_inputs"
    /\ \E g \in ExpandCyclicArgs \cup {EcOmitted}, ph \in PhaseArgs :
          LET ec == BindExpandCyclic(g)
              ca == [given |-> g, expand_cyclic |-> ec,
                     phase_angle_cyclic |-> ph]
          IN  /\ cargs' = ca
              /\ IF _connect_workflow_inputs(selection, ec, sim.nStages) # "none"
                    THEN /\ outcome' =
                               _connect_workflow_inputs(selection, ec, sim.nStages)
                         /\ pc' = "done"
                         /\ UNCHANGED <<wfin, chain>>
                    ELSE /\ outcome' = outcome
                         /\ pc' = "connect_averaging"
                         /\ wfin' = ConnectKwargs(ca)
                         /\ chain' = <<"initial_result">>
    /\ trace' = Append(trace, "_connect_workflow_inputs")
    /\ UNCHANGED <<legacy, dvars, svars, sim, method, targs, set_ids, sargs, fwd, selection, rescoping,
                   rargs, wfs, fc, submesh, df>>

\* _connect_averaging_eqv_and_principal_workflows: the equivalent or principal
\* stage runs on the averaged quantity.
AveragingStages(w) ==
    <<"averaging">>
        \o (IF "equivalent" \in w THEN <<"equivalent">> ELSE <<>>)
        \o (IF "principal" \in w THEN <<"principal">> ELSE <<>>)

\* mutant: the partly assembled workflow is evaluated
ConnectAveraging_Evaluates ==
    /\ pc = "connect_averaging"
    /\ chain' = chain \o AveragingStages(wfs)
    /\ trace' = trace \o <<"get_output",
                           "_connect_averaging_eqv_and_principal_workflows">>
    /\ pc' = "append_workflows"
    /\ UNCHANGED <<legacy, dvars, svars, sim, method, targs, set_ids, sargs, fwd, selection, rescoping,
                   rargs, cargs, wfs, wfin, fc, submesh, df, outcome>>

ConnectAveraging ==
    /\ pc = "connect_averaging"
    /\ chain' = chain \o AveragingStages(wfs)
    /\ trace' = Append(trace, "_connect_averaging_eqv_and_principal_workflows")
    /\ pc' = "append_workflows"
    /\ UNCHANGED <<legacy, dvars, svars, sim, method, targs, set_ids, sargs, fwd, selection, rescoping,
                   rargs, cargs, wfs, wfin, fc, submesh, df, outcome>>

\* mutant: the rescoping workflow comes first in the list
AppendList_RescopingFirst ==
    <<"rescoping", "component_extraction", "norm">>

\* The list handed to _append_workflows.
AppendList ==
    <<"component_extraction", "norm", "rescoping">>

\* _append_workflows: each workflow of the list that exists is connected after
\* the current output workflow, in list order.
RECURSIVE _append_workflows(_, _, _)
_append_workflows(list, w, out) ==
    IF list = <<>> THEN out
    ELSE _append_workflows(Tail(list), w,
                           IF Head(list) \in w THEN Append(out, Head(list))
                           ELSE out)

AppendWorkflows ==
    /\ pc = "append_workflows"
    /\ chain' = _append_workflows(AppendList, wfs, chain)
    /\ trace' = Append(trace, "_append_workflows")
    /\ pc' = "evaluate"
    /\ UNCHANGED <<legacy, dvars, svars, sim, method, targs, set_ids, sargs, fwd, selection, rescoping,
                   rargs, cargs, wfs, wfin, fc, submesh, df, outcome>>

\* ------------------------------------------ _get_result: evaluation
\* The set ids a Selection's temporal criterion asks the engine for.
TimeScoping(s, nSets) ==
    IF s.temporal = {} THEN <<1>>
    ELSE LET c == CHOOSE x \in s.temporal : TRUE
         IN  IF c.kind = "all_sets" THEN UpTo(nSets) ELSE c.ids

\* mutant: an engine error is swallowed and the query goes on with what it has
Evaluate_Swallows ==
    /\ pc = "evaluate"
    /\ trace' = Append(trace, "get_output")
    /\ \E ok \in BOOLEAN :
          LET req == TimeScoping(selection, sim.nSets)
          IN  IF ok /\ Range(req) \subseteq 1..sim.nSets
                 THEN fc' = [present |-> TRUE, cols |-> req, raised |-> "none"]
                 ELSE fc' = [fc EXCEPT !.raised = "EngineError"]
    /\ pc' = "disp_wf"
    /\ outcome' = outcome
    /\ UNCHANGED <<legacy, dvars, svars, sim, method, targs, set_ids, sargs, fwd, selection, rescoping,
                   rargs, cargs, wfs, wfin, chain, submesh, df>>

\* fc = wf.get_output(...): the engine returns one field per requested set, or
\* raises; it raises when a requested set does not exist. Nothing around the
\* call catches what it raises.
Evaluate ==
    /\ pc = "evaluate"
    /\ trace' = Append(trace, "get_output")
    /\ \E ok \in BOOLEAN :
          LET req == TimeScoping(selection, sim.nSets)
          IN  IF ok /\ Range(req) \subseteq 1..sim.nSets
                 THEN /\ fc' = [present |-> TRUE, cols |-> req, raised |-> "none"]
                      /\ pc' = "disp_wf"
                      /\ outcome' = outcome
                 ELSE /\ fc' = [fc EXCEPT !.raised = "EngineError"]
                      /\ pc' = "done"
                      /\ outcome' = fc'.raised
    /\ UNCHANGED <<legacy, dvars, svars, sim, method, targs, set_ids, sargs, fwd, selection, rescoping,
                   rargs, cargs, wfs, wfin, chain, submesh, df>>

GenerateDispWorkflow ==
    /\ pc = "disp_wf"
    /\ trace' = Append(trace, "_generate_disp_workflow")
    /\ pc' = "submesh"
    /\ UNCHANGED <<legacy, dvars, svars, sim, method, targs, set_ids, sargs, fwd, selection, rescoping,
                   rargs, cargs, wfs, wfin, chain, fc, submesh, df, outcome>>

\* mutant: the companion mesh is fetched whatever the Selection says
Submesh_Always ==
    /\ pc = "submesh"
    /\ submesh' = "mesh"
    /\ trace' = Append(trace, "get_mesh")
    /\ pc' = "create_dataframe"
    /\ UNCHANGED <<legacy, dvars, svars, sim, method, targs, set_ids, sargs, fwd, selection, rescoping,
                   rargs, cargs, wfs, wfin, chain, fc, df, outcome>>

\* submesh = None; if selection.outputs_mesh: submesh = selection.get_output(...)
Submesh ==
    /\ pc = "submesh"
    /\ IF outputs_mesh(selection)
          THEN /\ submesh' = "mesh"
               /\ trace' = Append(trace, "get_mesh")
          ELSE /\ submesh' = "None"
               /\ trace' = trace
    /\ pc' = "create_dataframe"
    /\ UNCHANGED <<legacy, dvars, svars, sim, method, targs, set_ids, sargs, fwd, selection, rescoping,
                   rargs, cargs, wfs, wfin, chain, fc, df, outcome>>

CreateDataframe ==
    /\ pc = "create_dataframe"
    /\ df' = [present |-> TRUE, cols |-> fc.cols, submesh |-> submesh]
    /\ trace' = Append(trace, "_create_dataframe")
    /\ outcome' = "DataFrame"
    /\ pc' = "done"
    /\ UNCHANGED <<legacy, dvars, svars, sim, method, targs, set_ids, sargs, fwd, selection, rescoping,
                   rargs, cargs, wfs, wfin, chain, fc, submesh>>

\* The call has returned or raised; the facade is stateless and the next call
\* starts afresh.
Return ==
    /\ pc = "done"
    /\ pc' = "idle"
    /\ method' = NoFacade
    /\ targs' = NoTArgs
    /\ set_ids' = NoneV
    /\ sargs' = NoSArgs
    /\ fwd' = NoFwd
    /\ selection' = NoSelection
    /\ rescoping' = FALSE
    /\ rargs' = NoRArgs
    /\ cargs' = NoCArgs
    /\ wfs' = {}
    /\ wfin' = NoWfIn
    /\ chain' = <<>>
    /\ trace' = <<>>
    /\ fc' = NoFc
    /\ submesh' = "None"
    /\ df' = NoDf
    /\ outcome' = "none"
    /\ UNCHANGED <<legacy, dvars, svars, sim>>

Next ==
    \/ \E f \in Facades : Call(f)
    \/ Validate
    \/ BuildSelection
    \/ CreateWorkflows
    \/ ConnectWorkflowInputs
    \/ ConnectAveraging
    \/ AppendWorkflows
    \/ Evaluate
    \/ GenerateDispWorkflow
    \/ Submesh
    \/ CreateDataframe
    \/ Return

Spec == Init /\ [][Next]_vars

\* ------------------------------------------------- Selection object
\* The id lists and element subsets a caller hands to a select_* method.
IdLists == {UpTo(n) : n \in 1..MaxId} \cup {<<MaxId>>, <<MaxId + 1>>}

SpatialOps ==
    {"select_nodes", "select_elements", "select_named_selection",
     "select_skin", "select_external_layer", "select_faces"}

TemporalOps ==
    {"select_time_freq_indices", "select_time_freq_sets",
     "select_time_freq_values"}

\* mutant: a second spatial criterion replaces the first
_set_spatial_Overwrite(s, c) ==
    [err |-> "none", sel |-> [s EXCEPT !.spatial = {c}]]

\* mutant: a second temporal criterion is added to the first
_set_temporal_Add(s, c) ==
    [err |-> "none", sel |-> [s EXCEPT !.temporal = s.temporal \cup {c}]]

\* Setting the spatial criterion: a second one after the first is refused with
\* ConfigurationError ("selections are mutually exclusive") and the Selection
\* is left as it was.
_set_spatial(s, c) ==
    IF s.spatial # {}
        THEN [err |-> "ConfigurationError", sel |-> s]
        ELSE [err |-> "none", sel |-> [s EXCEPT !.spatial = s.spatial \cup {c}]]

\* Setting the temporal criterion, under the same mutual-exclusion rule.
_set_temporal(s, c) ==
    IF s.temporal # {}
        THEN [err |-> "ConfigurationError", sel |-> s]
        ELSE [err |-> "none", sel |-> [s EXCEPT !.temporal = s.temporal \cup {c}]]

\* One select_* call on the Selection: op is the method, r what it produced.
SelectStep(op, c, r) ==
    /\ sel' = r.sel
    /\ selErr' = r.err
    /\ selCall' = [op |-> op, crit |-> c, before |-> sel]
    /\ evals' = IF r.sel = sel THEN evals ELSE <<>>
    /\ UNCHANGED <<legacy, sim, qvars, dvars>>

select_nodes(ids) ==
    LET c == Crit("nodes", ids)
    IN  SelectStep("select_nodes", c, _set_spatial(sel, c))

select_elements(ids) ==
    LET c == Crit("elements", ids)
    IN  SelectStep("select_elements", c, _set_spatial(sel, c))

select_named_selection(name) ==
    LET c == Crit("named_selection", <<name>>)
    IN  SelectStep("select_named_selection", c, _set_spatial(sel, c))

select_skin(elements) ==
    LET c == Crit("skin", elements)
    IN  SelectStep("select_skin", c, _set_spatial(sel, c))

select_external_layer(elements) ==
    LET c == Crit("external_layer", elements)
    IN  SelectStep("select_external_layer", c, _set_spatial(sel, c))

select_faces(ids) ==
    LET c == Crit("faces", ids)
    IN  SelectStep("select_faces", c, _set_spatial(sel, c))

select_time_freq_indices(idx) ==
    LET c == Crit("indices", idx)
    IN  SelectStep("select_time_freq_indices", c, _set_temporal(sel, c))

select_time_freq_sets(sets) ==
    LET c == Crit("set_ids", sets)
    IN  SelectStep("select_time_freq_sets", c, _set_temporal(sel, c))

select_time_freq_values(vals) ==
    LET c == Crit("times", vals)
    IN  SelectStep("select_time_freq_values", c, _set_temporal(sel, c))

\* selection = Selection(): the caller starts over with a fresh Selection.
NewSelection ==
    /\ sel # Sel({}, {})
    /\ sel' = Sel({}, {})
    /\ selCall' = NoCall
    /\ selErr' = "none"
    /\ evals' = <<>>
    /\ UNCHANGED <<legacy, sim, qvars, dvars>>

\* ------------------------------------------- evaluating a Selection
\* The id space of the simulation's mesh.
MeshIdSpace == 1..MaxId

\* The named selections of the simulation's mesh, with the ids they hold.
NamedSelections == [name \in {1} |-> UpTo(MaxId)]

\* The location tag of the scoping a criterion evaluates to.
ScopingLocation(kind) ==
    CASE kind = "nodes" -> "nodal"
      [] kind = "elements" -> "elemental"
      [] kind = "faces" -> "faces"
      [] kind = "named_selection" -> "nodal"
      [] OTHER -> "elemental"

Scoping(ids, location) == [err |-> "none", ids |-> ids, location |-> location]

Raises(err) == [err |-> err, ids |-> <<>>, location |-> ""]

\* the ids of s that lie in the mesh, in the order of s
RECURSIVE InMesh(_)
InMesh(s) ==
    IF s = <<>> THEN <<>>
    ELSE IF Head(s) \in MeshIdSpace
            THEN <<Head(s)>> \o InMesh(Tail(s))
            ELSE InMesh(Tail(s))

\* mutant: ids outside the mesh are dropped silently
Resolve_Clamped(s) ==
    IF s.spatial = {} THEN Scoping(UpTo(MaxId), "nodal")
    ELSE LET c == CHOOSE x \in s.spatial : TRUE
         IN  Scoping(InMesh(c.ids), ScopingLocation(c.kind))

\* Resolving the spatial criterion of a Selection against the simulation:
\* explicit ids are passed through as given, a named selection is looked up
\* in the mesh. The engine raises LookupError for a named selection that does
\* not exist and ValueError for ids outside the mesh's id space.
Resolve(s) ==
    IF s.spatial = {} THEN Scoping(UpTo(MaxId), "nodal")
    ELSE LET c == CHOOSE x \in s.spatial : TRUE
         IN  CASE c.kind = "named_selection" ->
                    IF c.ids[1] \in DOMAIN NamedSelections
                        THEN Scoping(NamedSelections[c.ids[1]],
                                     ScopingLocation(c.kind))
                        ELSE Raises("LookupError")
               [] c.kind \in {"skin", "external_layer"} /\ c.ids = <<>> ->
                    Scoping(UpTo(MaxId), ScopingLocation(c.kind))
               [] OTHER ->
                    IF Range(c.ids) \subseteq MeshIdSpace
                        THEN Scoping(c.ids, ScopingLocation(c.kind))
                        ELSE Raises("ValueError")

\* mutant: an evaluation uses the spatial criterion up
EvaluateStep_Consumes(via, r) ==
    /\ Len(evals) < MaxEvals
    /\ evals' = Append(evals, [via |-> via, on |-> sel, err |-> r.err,
                               ids |-> r.ids, location |-> r.location])
    /\ sel' = [sel EXCEPT !.spatial = {}]
    /\ UNCHANGED <<legacy, sim, qvars, dvars, selCall, selErr>>

\* One evaluation of the Selection: it has no side effect on the Selection.
EvaluateStep(via, r) ==
    /\ Len(evals) < MaxEvals
    /\ evals' = Append(evals, [via |-> via, on |-> sel, err |-> r.err,
                               ids |-> r.ids, location |-> r.location])
    /\ UNCHANGED <<legacy, sim, qvars, dvars, sel, selCall, selErr>>

\* scoping = selection._evaluate_on(simulation)
_evaluate_on == EvaluateStep("_evaluate_on", Resolve(sel))

\* ids = selection.apply_to(simulation)
apply_to == EvaluateStep("apply_to", Resolve(sel))

SelNext ==
    \/ \E ids \in IdLists : select_nodes(ids)
    \/ \E ids \in IdLists : select_elements(ids)
    \/ \E name \in 1..2 : select_named_selection(name)
    \/ \E el \in IdLists \cup {<<>>} : select_skin(el)
    \/ \E el \in IdLists \cup {<<>>} : select_external_layer(el)
    \/ \E ids \in IdLists : select_faces(ids)
    \/ \E idx \in {<<0>>, <<0, 1>>} : select_time_freq_indices(idx)
    \/ \E sets \in {UpTo(n) : n \in 1..MaxSets} : select_time_freq_sets(sets)
    \/ \E vals \in {<<1>>} : select_time_freq_values(vals)
    \/ NewSelection
    \/ _evaluate_on
    \/ apply_to

\* The Selection object reads nothing of the simulation's stages: one stage
\* count is followed.
SelInit == Init /\ sim.nStages = 0

SelSpec == SelInit /\ [][SelNext]_vars

\* ------------------------------------------------- DataFrame object
\* The fields containers handed to a DataFrame: one field per entry, each
\* with the set it belongs to (a set may have several fields).
RECURSIVE SetIdSeqs(_)
SetIdSeqs(n) ==
    IF n = 0 THEN {<<>>}
    ELSE LET shorter == SetIdSeqs(n - 1)
         IN  shorter \cup
             {Append(s, x) : s \in {t \in shorter : Len(t) = n - 1},
                             x \in 1..MaxSets}

FieldsContainers ==
    {s \in SetIdSeqs(MaxFields) :
        \A i \in 1..Len(s) - 1 : s[i] <= s[i + 1]}

\* What a caller passes as data: a fields container, None (the default), or
\* something else.
DataArgs ==
    {[k |-> "FieldsContainer", fields |-> s] : s \in FieldsContainers}
        \cup {[k |-> "None", fields |-> <<>>], [k |-> "other", fields |-> <<>>]}

\* mutant: the length is the number of sets
DataFrame__len___Sets(f) == Cardinality(Range(f._fc))

\* return len(self._fc)
DataFrame__len__(f) == Len(f._fc)

\* mutant: the first field is plotted
PlottedFields_First(f) == IF Len(f._fc) = 0 THEN <<>> ELSE <<1>>

\* self._fc[-1].plot(**kwargs): the positions in _fc of the fields plotted
PlottedFields(f) == IF Len(f._fc) = 0 THEN <<>> ELSE <<Len(f._fc)>>

\* mutant: data=None gives a DataFrame over nothing
DataFrame__init___AcceptsNone ==
    /\ ~frame.exists
    /\ \E data \in DataArgs, parent \in BOOLEAN,
          index \in {"None", "given"}, columns \in {"None", "given"} :
          /\ frame' =
                [exists |-> TRUE, _fc |-> data.fields,
                 _index |-> index, _columns |-> columns,
                 has_parent |-> parent, _str |-> <<>>,
                 _last_display_width |-> display.width,
                 _last_display_max_colwidth |-> display.max_colwidth]
          /\ parentAlive' = parent
          /\ dcall' = [DCall("__init__") EXCEPT !.data = data.k]
    /\ UNCHANGED <<legacy, sim, qvars, svars, display>>

\* DataFrame(data, parent_simulation, index, columns)
DataFrame__init__ ==
    /\ ~frame.exists
    /\ \E data \in DataArgs, parent \in BOOLEAN,
          index \in {"None", "given"}, columns \in {"None", "given"} :
          IF data.k = "FieldsContainer"
             THEN /\ frame' =
                        [exists |-> TRUE, _fc |-> data.fields,
                         _index |-> index, _columns |-> columns,
                         has_parent |-> parent, _str |-> <<>>,
                         _last_display_width |-> display.width,
                         _last_display_max_colwidth |-> display.max_colwidth]
                  /\ parentAlive' = parent
                  /\ dcall' = [DCall("__init__") EXCEPT !.data = data.k]
             ELSE /\ frame' = frame
                  /\ parentAlive' = parentAlive
                  /\ dcall' = [DCall("__init__") EXCEPT
                                !.data = data.k, !.raised = "ValueError"]
    /\ UNCHANGED <<legacy, sim, qvars, svars, display>>

\* len(dataframe)
len ==
    /\ frame.exists
    /\ dcall' = [DCall("__len__") EXCEPT !.ret = <<DataFrame__len__(frame)>>]
    /\ UNCHANGED <<legacy, sim, qvars, svars, frame, parentAlive, display>>

\* dataframe.columns, dataframe.index, dataframe.axes
axes ==
    /\ frame.exists
    /\ \E op \in {"columns", "index", "axes"} :
          dcall' = [DCall(op) EXCEPT !.ret =
                        CASE op = "columns" -> <<frame._columns>>
                          [] op = "index" -> <<frame._index>>
                          [] OTHER -> <<frame._index, frame._columns>>]
    /\ UNCHANGED <<legacy, sim, qvars, svars, frame, parentAlive, display>>

\* mutant: plotting takes the field plotted out of the container
plot_Consumes ==
    /\ frame.exists
    /\ dcall' = [DCall("plot") EXCEPT !.plotted = PlottedFields(frame)]
    /\ frame' = [frame EXCEPT
                    !._fc = IF Len(@) = 0 THEN @ ELSE SubSeq(@, 1, Len(@) - 1)]
    /\ UNCHANGED <<legacy, sim, qvars, svars, parentAlive, display>>

\* dataframe.plot(): indexing an empty container raises IndexError
plot ==
    /\ frame.exists
    /\ dcall' = [DCall("plot") EXCEPT
                    !.plotted = PlottedFields(frame),
                    !.raised = IF Len(frame._fc) = 0 THEN "IndexError"
                               ELSE "none"]
    /\ UNCHANGED <<legacy, sim, qvars, svars, frame, parentAlive, display>>

\* What the try block of animate comes to: self._parent_simulation() and the
\* displacement of the simulation's model on the time scoping of _fc. The
\* attribute is missing when no parent simulation was given, the weak
\* reference gives None once the simulation is released, and the engine may
\* raise.
LookupDisplacement(f, alive, engineOk) ==
    IF ~f.has_parent THEN "AttributeError"
    ELSE IF ~alive THEN "AttributeError"
    ELSE IF ~engineOk THEN "EngineError"
    ELSE "ok"

\* mutant: nothing catches what the displacement lookup raises
AnimateCall_NoCatch(deform, lk, backendOk) ==
    [DCall("animate") EXCEPT
        !.deform = deform,
        !.lookup = IF deform THEN lk ELSE "not_tried",
        !.animated = ~deform \/ lk = "ok",
        !.deform_by = IF deform /\ lk = "ok" THEN "displacement" ELSE "None",
        !.raised = IF deform /\ lk # "ok" THEN lk
                   ELSE IF backendOk THEN "none" ELSE "BackendError"]

\* animate(deform): deform_by = None; if deform: try ... except Exception:
\* warnings.warn(UserWarning(...)); return self._fc.animate(deform_by=...)
AnimateCall(deform, lk, backendOk) ==
    [DCall("animate") EXCEPT
        !.deform = deform,
        !.lookup = IF deform THEN lk ELSE "not_tried",
        !.warned = deform /\ lk # "ok",
        !.animated = TRUE,
        !.deform_by = IF deform /\ lk = "ok" THEN "displacement" ELSE "None",
        !.raised = IF backendOk THEN "none" ELSE "BackendError"]

animate ==
    /\ frame.exists
    /\ \E deform \in BOOLEAN, engineOk \in BOOLEAN, backendOk \in BOOLEAN :
          dcall' = AnimateCall(deform,
                               LookupDisplacement(frame, parentAlive, engineOk),
                               backendOk)
    /\ UNCHANGED <<legacy, sim, qvars, svars, frame, parentAlive, display>>

\* str(self._fc), the text _update_str stores: it is rendered by the fields
\* container, whatever width and max_colwidth are
Rendered(f) == <<f._fc>>

\* mutant: the text is rendered once and kept whatever the options become
str_RendersOnce ==
    /\ frame.exists
    /\ IF frame._str = <<>>
          THEN frame' = [frame EXCEPT
                            !._str = Rendered(frame),
                            !._last_display_width = display.width,
                            !._last_display_max_colwidth = display.max_colwidth]
          ELSE frame' = frame
    /\ dcall' = [DCall("__str__") EXCEPT
                    !.ret = frame'._str, !.rendered = frame._str = <<>>]
    /\ UNCHANGED <<legacy, sim, qvars, svars, parentAlive, display>>

\* the text is missing or was rendered under other display options
StaleStr(f, d) ==
    \/ f._str = <<>>
    \/ f._last_display_width # d.width
    \/ f._last_display_max_colwidth # d.max_colwidth

\* str(dataframe)
str ==
    /\ frame.exists
    /\ IF StaleStr(frame, display)
          THEN frame' = [frame EXCEPT
                            !._str = Rendered(frame),
                            !._last_display_width = display.width,
                            !._last_display_max_colwidth = display.max_colwidth]
          ELSE frame' = frame
    /\ dcall' = [DCall("__str__") EXCEPT
                    !.ret = frame'._str, !.rendered = StaleStr(frame, display)]
    /\ UNCHANGED <<legacy, sim, qvars, svars, parentAlive, display>>

\* The module-level display options are assigned by a caller.
DisplayOptions ==
    [width : {display_width, display_width + 40},
     max_colwidth : {display_max_colwidth, display_max_colwidth + 10}]

SetDisplayOptions ==
    /\ \E d \in DisplayOptions \ {display} : display' = d
    /\ UNCHANGED <<legacy, sim, qvars, svars, frame, parentAlive, dcall>>

\* The simulation a DataFrame refers to weakly goes away.
ReleaseSimulation ==
    /\ frame.exists
    /\ parentAlive
    /\ parentAlive' = FALSE
    /\ UNCHANGED <<legacy, sim, qvars, svars, frame, display, dcall>>

\* The caller lets go of the DataFrame.
DropDataFrame ==
    /\ frame.exists
    /\ frame' = NoFrame
    /\ parentAlive' = FALSE
    /\ dcall' = DCall("")
    /\ UNCHANGED <<legacy, sim, qvars, svars, display>>

DfNext ==
    \/ DataFrame__init__
    \/ len
    \/ axes
    \/ plot
    \/ animate
    \/ str
    \/ SetDisplayOptions
    \/ ReleaseSimulation
    \/ DropDataFrame

DfSpec == Init /\ [][DfNext]_vars

\* ---------------------------------------------------- load_solution
\* _PhysicsType and _AnalysisType, and a value that is neither
PhysicsTypes == {"mecanic", "thermal"}
AnalysisTypes == {"static", "modal", "harmonic", "transient"}

\* What the caller passes for physics_type and analysis_type.
PhysicsArgs == PhysicsTypes \cup {"None", "other"}
AnalysisArgs == AnalysisTypes \cup {"None", "other"}

\* The result files opened: what result_info gives for each type, "unreadable"
\* when reading it raises.
Files ==
    [physics : PhysicsTypes \cup {"other", "unreadable"},
     analysis : AnalysisTypes \cup {"other", "unreadable"}]

\* mutant: what the file says wins over what the caller gave
ReadType_FileFirst(arg, infile, default) ==
    IF infile # "unreadable"
        THEN [value |-> infile, read |-> TRUE, printed |-> FALSE]
        ELSE IF arg # "None"
            THEN [value |-> arg, read |-> TRUE, printed |-> FALSE]
            ELSE [value |-> default, read |-> TRUE, printed |-> TRUE]

\* mutant: a type that cannot be read is left as it is, no default
ReadType_NoFallback(arg, infile, default) ==
    IF arg # "None"
        THEN [value |-> arg, read |-> FALSE, printed |-> FALSE]
        ELSE [value |-> infile, read |-> TRUE, printed |-> FALSE]

\* if not physics_type: try: physics_type = ...result_info.physics_type
\* except Exception: print(...); physics_type = _PhysicsType.mecanic
\* (and the same for analysis_type, with _AnalysisType.static)
ReadType(arg, infile, default) ==
    IF arg # "None"
        THEN [value |-> arg, read |-> FALSE, printed |-> FALSE]
        ELSE IF infile = "unreadable"
            THEN [value |-> default, read |-> TRUE, printed |-> TRUE]
            ELSE [value |-> infile, read |-> TRUE, printed |-> FALSE]

\* mutant: thermal files get the mechanical solution for the analysis types
\* that have no thermal solution
Dispatch_ThermalBorrows(physics, analysis) ==
    IF physics \in {"thermal", "mecanic"} THEN
        CASE analysis = "static" ->
                [ret |-> IF physics = "thermal"
                            THEN "ThermalStaticAnalysisSolution"
                            ELSE "StaticAnalysisSolution", raised |-> "none"]
          [] analysis = "transient" ->
                [ret |-> IF physics = "thermal"
                            THEN "ThermalTransientAnalysisSolution"
                            ELSE "TransientAnalysisSolution", raised |-> "none"]
          [] analysis = "modal" ->
                [ret |-> "ModalAnalysisSolution", raised |-> "none"]
          [] analysis = "harmonic" ->
                [ret |-> "HarmonicAnalysisSolution", raised |-> "none"]
          [] OTHER -> [ret |-> "None", raised |-> "Exception"]
    ELSE [ret |-> "None", raised |-> "Exception"]

\* The if / elif chain of load_solution: the class of the solution returned,
\* or the exception raised.
Dispatch(physics, analysis) ==
    IF physics = "thermal" THEN
        CASE analysis = "static" ->
                [ret |-> "ThermalStaticAnalysisSolution", raised |-> "none"]
          [] analysis = "transient" ->
                [ret |-> "ThermalTransientAnalysisSolution", raised |-> "none"]
          [] OTHER -> [ret |-> "None", raised |-> "Exception"]
    ELSE IF physics = "mecanic" THEN
        CASE analysis = "static" ->
                [ret |-> "StaticAnalysisSolution", raised |-> "none"]
          [] analysis = "modal" ->
                [ret |-> "ModalAnalysisSolution", raised |-> "none"]
          [] analysis = "harmonic" ->
                [ret |-> "HarmonicAnalysisSolution", raised |-> "none"]
          [] analysis = "transient" ->
                [ret |-> "TransientAnalysisSolution", raised |-> "none"]
          [] OTHER -> [ret |-> "None", raised |-> "Exception"]
    ELSE [ret |-> "None", raised |-> "Exception"]

\* load_solution(data_sources, physics_type, analysis_type) is called and the
\* model of the file is made.
LoadCall ==
    /\ ld.pc = "idle"
    /\ \E p \in PhysicsArgs, a \in AnalysisArgs, f \in Files :
          ld' = [NoLoad EXCEPT !.pc = "physics", !.physics_arg = p,
                               !.analysis_arg = a, !.file = f,
                               !.physics_type = p, !.analysis_type = a]
    /\ UNCHANGED <<sim, qvars, svars, dvars, path>>

LoadPhysics ==
    /\ ld.pc = "physics"
    /\ LET r == ReadType(ld.physics_type, ld.file.physics, "mecanic")
       IN  ld' = [ld EXCEPT
                    !.pc = "analysis",
                    !.physics_type = r.value,
                    !.read = IF r.read THEN @ \cup {"physics"} ELSE @,
                    !.printed = IF r.printed THEN @ \cup {"physics"} ELSE @]
    /\ UNCHANGED <<sim, qvars, svars, dvars, path>>

LoadAnalysis ==
    /\ ld.pc = "analysis"
    /\ LET r == ReadType(ld.analysis_type, ld.file.analysis, "static")
       IN  ld' = [ld EXCEPT
                    !.pc = "dispatch",
                    !.analysis_type = r.value,
                    !.read = IF r.read THEN @ \cup {"analysis"} ELSE @,
                    !.printed = IF r.printed THEN @ \cup {"analysis"} ELSE @]
    /\ UNCHANGED <<sim, qvars, svars, dvars, path>>

LoadDispatch ==
    /\ ld.pc = "dispatch"
    /\ LET r == Dispatch(ld.physics_type, ld.analysis_type)
       IN  ld' = [ld EXCEPT !.pc = "done", !.ret = r.ret, !.raised = r.raised]
    /\ UNCHANGED <<sim, qvars, svars, dvars, path>>

\* The result objects asked of a solution, with the operator name each
\* class sets in __init__: ElectricPotential sets "VOLT", Displacement "U".
OperatorName ==
    [electric_potential |-> "VOLT", electric_field |-> "EF",
     displacement |-> "U"]

\* mutant: every quantity is taken as registered
Registered_Any(physics, base_name) == TRUE

\* The quantities registered for a physics type: the electric and thermal
\* ones for thermal, the structural ones for mechanical.
Registered(physics, base_name) ==
    \/ physics = "thermal" /\ base_name \in {"VOLT", "EF"}
    \/ physics = "mecanic" /\ base_name \in {"U"}

\* Initial extraction: the quantity is mapped to the engine's extraction
\* stage, and refused with UnsupportedResultError when it is not registered
\* for the physics type of the solution.
_initial_extraction(physics, q) ==
    IF Registered(physics, OperatorName[q])
        THEN [quantity |-> q, operator_name |-> OperatorName[q],
              created |-> TRUE, raised |-> "none", evaluated |-> FALSE]
        ELSE [quantity |-> q, operator_name |-> OperatorName[q],
              created |-> FALSE, raised |-> "UnsupportedResultError",
              evaluated |-> FALSE]

\* locations.nodal, locations.elemental, locations.elemental_nodal
Locations == {"Nodal", "Elemental", "ElementalNodal"}

\* The class a solution instantiates for a quantity: the harmonic solution
\* gives the complex displacement.
ResultClass(q, solution) ==
    CASE q = "displacement" ->
            IF solution = "HarmonicAnalysisSolution"
                THEN "ComplexDisplacement" ELSE "Displacement"
      [] q = "electric_potential" -> "ElectricPotential"
      [] q = "electric_field" -> "ElectricField"

\* mutant: a displacement is built at whatever location is asked
Displacement__init___AnyLocation(r, class, location) == r

\* Displacement.__init__ and ComplexDisplacement.__init__, after
\* super().__init__(**kwargs) gave r: the location of the definition must be
\* nodal.
Displacement__init__(r, class, location) ==
    IF /\ class \in {"Displacement", "ComplexDisplacement"}
       /\ r.created
       /\ location # "Nodal"
        THEN [r EXCEPT !.created = FALSE, !.raised = "NodalLocationError"]
        ELSE r

\* solution.electric_potential(), solution.displacement(location=...), ...:
\* a result object is asked of the solution load_solution returned.
RequestResult ==
    /\ ld.pc = "done"
    /\ ld.raised = "none"
    /\ ld.result.quantity = ""
    /\ \E q \in DOMAIN OperatorName, location \in Locations :
          LET class == ResultClass(q, ld.ret)
          IN  ld' = [ld EXCEPT
                        !.definition = [location |-> location, class |-> class],
                        !.result = Displacement__init__(
                                        _initial_extraction(ld.physics_type, q),
                                        class, location)]
    /\ UNCHANGED <<sim, qvars, svars, dvars, path>>

\* ef.scalar, ef.vector: the engine evaluates the result object.
EvaluateResult ==
    /\ ld.pc = "done"
    /\ ld.result.created
    /\ ~ld.result.evaluated
    /\ ld' = [ld EXCEPT !.result.evaluated = TRUE]
    /\ UNCHANGED <<sim, qvars, svars, dvars, path>>

LoadReturn ==
    /\ ld.pc = "done"
    /\ ld' = NoLoad
    /\ UNCHANGED <<sim, qvars, svars, dvars, path>>

LoadNext ==
    \/ LoadCall
    \/ LoadPhysics
    \/ LoadAnalysis
    \/ LoadDispatch
    \/ RequestResult
    \/ EvaluateResult
    \/ LoadReturn

LoadSpec == Init /\ [][LoadNext]_vars

\* ---------------------------------------- create_path_on_coordinates
\* The coordinates of n points as a caller can give them. A list is held by
\* the types of its items ("list" for a triple, "int" or "float" for a
\* number), an array by its shape, a Field by its own attributes.
ListOfTriples(n) ==
    [kind |-> "list", items |-> [i \in 1..n |-> "list"], shape |-> <<>>,
     points |-> n, field |-> NoField]

FlatLists(n) ==
    {[kind |-> "list", items |-> t, shape |-> <<>>, points |-> n,
      field |-> NoField] : t \in [1..3 * n -> {"int", "float"}]}

Array2D(n) ==
    [kind |-> "ndarray", items |-> <<>>, shape |-> <<n, 3>>, points |-> n,
     field |-> NoField]

Array1D(n) ==
    [kind |-> "ndarray", items |-> <<>>, shape |-> <<3 * n>>, points |-> n,
     field |-> NoField]

Fields(n) ==
    {[kind |-> "Field", items |-> <<>>, shape |-> <<>>, points |-> n,
      field |-> [nature |-> "vector", location |-> l, ids |-> UpTo(n)]] :
        l \in {"Nodal", "Elemental"}}

CoordinateArgs ==
    UNION {{ListOfTriples(n), Array2D(n), Array1D(n)}
                \cup FlatLists(n) \cup Fields(n) : n \in 0..MaxPoints}

\* len(coordinates)
PyLen(c) == IF c.kind = "list" THEN Len(c.items) ELSE c.shape[1]

\* int(coord_length) once DpfPath.__init__ has divided it by 3 or not: a list
\* is divided when its first item is a float, an array when it has one
\* dimension.
coord_length(c) ==
    IF c.kind = "list"
        THEN IF c.items[1] = "float" THEN PyLen(c) \div 3 ELSE PyLen(c)
        ELSE IF Len(c.shape) = 1 THEN PyLen(c) \div 3 ELSE PyLen(c)

\* create_path_on_coordinates(coordinates), which is DpfPath(coordinates):
\* coordinates[0] of an empty list raises IndexError.
DpfPath__init__ ==
    /\ ~path.called
    /\ \E c \in CoordinateArgs :
          path' =
            IF c.kind = "Field"
                THEN [NoPath EXCEPT !.called = TRUE, !.coordinates = c,
                                    !.built = TRUE, !._field = c.field]
            ELSE IF c.kind = "list" /\ Len(c.items) = 0
                THEN [NoPath EXCEPT !.called = TRUE, !.coordinates = c,
                                    !.raised = "IndexError"]
            ELSE [NoPath EXCEPT
                    !.called = TRUE, !.coordinates = c, !.built = TRUE,
                    !._field = [nature |-> "vector", location |-> "Nodal",
                                ids |-> UpTo(coord_length(c))]]
    /\ UNCHANGED <<sim, qvars, svars, dvars, ld>>

\* path.coordinates: the data of the field is read back
DpfPath_coordinates ==
    /\ path.built
    /\ ~path.read
    /\ path' = [path EXCEPT !.read = TRUE]
    /\ UNCHANGED <<sim, qvars, svars, dvars, ld>>

\* The caller lets go of the path.
DropPath ==
    /\ path.called
    /\ path' = NoPath
    /\ UNCHANGED <<sim, qvars, svars, dvars, ld>>

PathNext ==
    \/ DpfPath__init__
    \/ DpfPath_coordinates
    \/ DropPath

PathSpec == Init /\ [][PathNext]_vars

\* ================================================================ claims
\* The temporal arguments a caller supplied, by name.
SuppliedTemporal(a) ==
    (IF a.set_ids.k # "none" THEN {"set_ids"} ELSE {})
        \cup (IF a.all_sets THEN {"all_sets"} ELSE {})
        \cup (IF a.frequencies.k # "none" THEN {"frequencies"} ELSE {})
        \cup (IF a.modes.k # "none" THEN {"modes"} ELSE {})
        \cup (IF a.selection.k = "selection" THEN {"selection"} ELSE {})

\* The spatial arguments a caller supplied, by name.
SuppliedSpatial(a, sa) ==
    (IF sa.node_ids.k # "none" THEN {"node_ids"} ELSE {})
        \cup (IF sa.element_ids.k # "none" THEN {"element_ids"} ELSE {})
        \cup (IF sa.named_selections.k # "none" THEN {"named_selections"} ELSE {})
        \cup (IF a.selection.k = "selection" THEN {"selection"} ELSE {})

\* the temporal arguments of the running query have been read
TemporalRead == pc \notin {"idle", "validate"}

\* the running query has called the collaborator `name`
Called(name) == \E i \in 1..Len(trace) : trace[i] = name

\* the spatial arguments of the running query have been read
SpatialRead == Called("_build_selection")

\* the cyclic arguments of the running query have been read
CyclicRead == Called("_connect_workflow_inputs")

\* C1: a result query (through any facade method) that is given more than one
\* of set_ids, all_sets, frequencies, modes, selection raises ValueError.
C1_TemporalExclusive ==
    (TemporalRead /\ Cardinality(SuppliedTemporal(targs)) > 1)
        => (pc = "done" /\ outcome = "ValueError")

C1_Witness ==
    /\ pc = "done"
    /\ outcome = "ValueError"
    /\ method.name = "stress_elemental"
    /\ SuppliedTemporal(targs) = {"all_sets", "modes"}

\* C2: a result query given none of set_ids, all_sets, frequencies, modes,
\* selection forwards set id 1 and nothing else as the temporal criterion, and
\* the DataFrame it returns has exactly one column, that of set 1.
C2_DefaultFirstSet ==
    (TemporalRead /\ SuppliedTemporal(targs) = {})
        => /\ set_ids = IntV(1)
           /\ fwd.called =>
                /\ fwd.set_ids = IntV(1)
                /\ fwd.times = NoneV
                /\ fwd.load_steps = NoneV
                /\ fwd.all_sets = FALSE
                /\ fwd.selection = NoSelection
           /\ df.present => df.cols = <<1>>

C2_Witness ==
    /\ SuppliedTemporal(targs) = {}
    /\ outcome = "DataFrame"
    /\ Len(df.cols) = 1

\* C3: a result query given more than one of node_ids, element_ids,
\* named_selections, selection raises ValueError.
C3_SpatialExclusive ==
    (SpatialRead /\ Cardinality(SuppliedSpatial(targs, sargs)) > 1)
        => (pc = "done" /\ outcome = "ValueError")

C3_Witness ==
    /\ pc = "done"
    /\ outcome = "ValueError"
    /\ SuppliedSpatial(targs, sargs) = {"node_ids", "named_selections"}
    /\ Cardinality(SuppliedTemporal(targs)) <= 1

StageRank(st) ==
    CASE st = "initial_result" -> 1
      [] st \in {"averaging", "equivalent", "principal"} -> 2
      [] st = "component_extraction" -> 3
      [] st = "norm" -> 4
      [] st = "rescoping" -> 5

\* C6: the stages of the workflow are chained in the order initial extraction
\* (with its cyclic inputs connected), averaging / equivalent / principal,
\* component extraction, norm, rescoping; no stage comes before one that
\* precedes it in this order and rescoping, when present, is last.
C6_StageOrder ==
    /\ \A i, j \in 1..Len(chain) :
          i < j => StageRank(chain[i]) < StageRank(chain[j])
                     \/ /\ StageRank(chain[i]) = 2
                        /\ StageRank(chain[j]) = 2
                        /\ chain[i] = "averaging"
                        /\ chain[j] # "averaging"
    /\ chain # <<>> => chain[1] = "initial_result" /\ wfin.connected
    /\ Called("_append_workflows") =>
          /\ Range(chain) = wfs
          /\ "rescoping" \in wfs => chain[Len(chain)] = "rescoping"

C6_Witness ==
    chain = <<"initial_result", "averaging", "component_extraction", "norm",
              "rescoping">>

\* the calls that assemble the result workflow
AssemblyCalls ==
    {"_create_result_workflows", "_connect_workflow_inputs",
     "_connect_averaging_eqv_and_principal_workflows", "_append_workflows"}

\* C7: assembling the result workflow never evaluates it; within one query the
\* workflow is evaluated exactly once, after all of the assembly.
C7_EvaluatedOnceAfterAssembly ==
    /\ \A i, j \in 1..Len(trace) :
          (trace[i] = "get_output" /\ trace[j] = "get_output") => i = j
    /\ \A i \in 1..Len(trace) :
          trace[i] = "get_output" =>
             /\ \A a \in AssemblyCalls : \E j \in 1..(i - 1) : trace[j] = a
             /\ \A j \in (i + 1)..Len(trace) : trace[j] \notin AssemblyCalls
    /\ pc \in {"connect_inputs", "connect_averaging", "append_workflows",
               "evaluate"} => ~Called("get_output")
    /\ outcome = "DataFrame" => Called("get_output")

C7_Witness ==
    /\ outcome = "DataFrame"
    /\ Called("get_output")
    /\ Called("get_mesh")

\* C8: when the mutual-exclusion ValueError is raised, no Selection has been
\* built, no workflow created or connected and nothing evaluated; the check of
\* the temporal arguments comes before any call to a collaborator.
C8_ValidationBeforeEngine ==
    /\ (outcome = "ValueError" /\ Cardinality(SuppliedTemporal(targs)) > 1)
          => trace = <<>> /\ ~fwd.called
    /\ (outcome = "ValueError"
          /\ \/ Cardinality(SuppliedTemporal(targs)) > 1
             \/ Cardinality(SuppliedSpatial(targs, sargs)) > 1)
          => /\ selection = NoSelection
             /\ wfs = {}
             /\ ~wfin.connected
             /\ chain = <<>>
             /\ \A c \in AssemblyCalls \cup {"get_output", "get_mesh"} : ~Called(c)
             /\ ~fc.present

C8_Witness ==
    /\ outcome = "ValueError"
    /\ SuppliedTemporal(targs) = {"set_ids", "selection"}
    /\ trace = <<>>

\* a mesh reduction is requested by the running query: its skin or
\* external_layer argument put a skin or an external-layer criterion in the
\* Selection it works on (no Selection of the caller's in their place)
MeshReductionRequested ==
    /\ SpatialRead
    /\ targs.selection = NoSelection
    /\ outputs_mesh(selection)

\* cyclic expansion is requested on a cyclic model by the running query
CyclicExpansionRequested ==
    sim.nStages > 0 /\ CyclicRead /\ cargs.expand_cyclic # EcBool(FALSE)

MultiStageRead == sim.nStages >= 2 /\ CyclicRead

RequestRead == Called("_create_result_workflows")

\* C11: every request of category scalar or equivalent is built with
\* components equal to None: the facade methods of these categories forward
\* components=None to _get_result, and no component extraction is created
\* for them.
C11_ScalarComponentsNone ==
    (RequestRead /\ method.category \in {"scalar", "equivalent"})
        => /\ rargs.components = NoneV
           /\ "component_extraction" \notin wfs

C11_Witness ==
    /\ method.category = "equivalent"
    /\ RequestRead
    /\ rargs.components = NoneV
    /\ outcome = "DataFrame"

\* ------------------------------------------------------------------ C12
\* the Selection e was made on holds exactly one criterion, explicit ids
ExplicitIds(e) ==
    \E c \in e.on.spatial :
        /\ e.on.spatial = {c}
        /\ c.kind \in {"nodes", "elements", "faces"}

MeshCriterionActive(s) ==
    \E c \in s.spatial : c.kind = "skin" \/ c.kind = "external_layer"

\* the running query is past the place where the companion mesh is fetched
SubmeshDecided == pc = "create_dataframe" \/ df.present

CallCount(name) == Cardinality({i \in 1..Len(trace) : trace[i] = name})

\* C19: a result query has no partial result and no retry: _get_result either
\* returns a complete DataFrame or raises; an error raised by the engine while
\* the workflow is evaluated reaches the caller unchanged, the evaluation is
\* not tried again and no DataFrame is created.
C19_NoPartialNoRetry ==
    /\ pc = "done" =>
          \/ /\ outcome = "DataFrame"
             /\ df.present
             /\ fc.present
             /\ fc.raised = "none"
             /\ df.cols = fc.cols
          \/ /\ outcome \in {"ValueError", "ConfigurationError", "EngineError"}
             /\ ~df.present
    /\ fc.raised # "none" =>
          /\ pc = "done"
          /\ outcome = fc.raised
          /\ ~df.present
          /\ ~Called("_create_dataframe")
          /\ CallCount("get_output") = 1
    /\ CallCount("get_output") <= 1

C19_Witness ==
    /\ pc = "done"
    /\ fc.raised = "EngineError"
    /\ outcome = "EngineError"
    /\ trace[Len(trace)] = "get_output"
    /\ ~df.present

\* ------------------------------------------------------------------ C15
\* C15: DataFrame.animate(deform=True) never raises because the displacement
\* is unavailable: when the lookup fails (parent simulation never set, already
\* released, or the engine raising) a UserWarning is emitted and the animation
\* is still run with no deformation source; with deform=False the parent
\* simulation is never consulted.
C15_AnimateDegrades ==
    dcall.op = "animate" =>
        /\ dcall.raised \in {"none", "BackendError"}
        /\ (dcall.deform /\ dcall.lookup # "ok") =>
              /\ dcall.warned
              /\ dcall.animated
              /\ dcall.deform_by = "None"
        /\ ~dcall.deform =>
              /\ dcall.lookup = "not_tried"
              /\ ~dcall.warned
              /\ dcall.animated

C15_Witness ==
    /\ dcall.op = "animate"
    /\ dcall.deform
    /\ frame.has_parent
    /\ ~parentAlive
    /\ dcall.lookup = "AttributeError"
    /\ dcall.warned
    /\ dcall.animated
    /\ dcall.deform_by = "None"
    /\ dcall.raised = "none"

\* ------------------------------------------------------------------ C17
\* C17: for every DataFrame built from a fields container, len(dataframe) is
\* the number of fields in that container: one per set when there is one
\* field per set, more when a set has several fields.
C17_LenIsFieldCount ==
    dcall.op = "__len__" => dcall.ret = <<Len(frame._fc)>>

C17_Witness ==
    /\ dcall.op = "__len__"
    /\ frame._fc = <<1, 1>>
    /\ dcall.ret = <<2>>

\* ------------------------------------------------------------------ C18
\* C18: DataFrame.plot() plots exactly one field, the last field of the
\* wrapped fields container, whatever the number of columns; no other field
\* is plotted.
C18_PlotsLastField ==
    dcall.op = "plot" =>
        /\ Len(frame._fc) >= 1 =>
              /\ dcall.plotted = <<Len(frame._fc)>>
              /\ dcall.raised = "none"
        /\ \A i \in 1..Len(dcall.plotted) : dcall.plotted[i] = Len(frame._fc)
        /\ Len(dcall.plotted) <= 1

C18_Witness ==
    /\ dcall.op = "plot"
    /\ Len(frame._fc) = MaxFields
    /\ dcall.plotted = <<MaxFields>>

\* ------------------------------------------------------------------ C16
\* the physics type (the analysis type) was not given and could not be read
PhysicsFellBack ==
    /\ ld.physics_arg = "None"
    /\ ld.file.physics = "unreadable"
    /\ ld.pc \in {"analysis", "dispatch", "done"}

AnalysisFellBack ==
    /\ ld.analysis_arg = "None"
    /\ ld.file.analysis = "unreadable"
    /\ ld.pc \in {"dispatch", "done"}

\* C16: when load_solution is called without physics_type or analysis_type
\* and reading that type from the file fails, the call does not raise for
\* that reason: the physics type falls back to mechanical, the analysis type
\* to static, a message is emitted, and when both fall back a static
\* mechanical solution is returned.
C16_DetectionFallsBack ==
    /\ PhysicsFellBack =>
          /\ ld.physics_type = "mecanic"
          /\ "physics" \in ld.printed
          /\ (ld.pc = "done" /\ ld.analysis_type \in AnalysisTypes)
                => ld.raised = "none"
    /\ AnalysisFellBack =>
          /\ ld.analysis_type = "static"
          /\ "analysis" \in ld.printed
          /\ (ld.pc = "done" /\ ld.physics_type \in PhysicsTypes)
                => ld.raised = "none"
    /\ (PhysicsFellBack /\ AnalysisFellBack /\ ld.pc = "done") =>
          /\ ld.ret = "StaticAnalysisSolution"
          /\ ld.raised = "none"

C16_Witness ==
    /\ ld.pc = "done"
    /\ PhysicsFellBack
    /\ AnalysisFellBack
    /\ ld.printed = {"physics", "analysis"}
    /\ ld.ret = "StaticAnalysisSolution"

\* ------------------------------------------------------------------ C20
\* a quantity was asked of the solution that is not registered for its
\* physics type
UnregisteredRequested ==
    /\ ld.result.quantity # ""
    /\ \/ ld.physics_type = "mecanic" /\ ld.result.operator_name \in {"VOLT", "EF"}
       \/ ld.physics_type = "thermal" /\ ld.result.operator_name = "U"

C21_CyclicDefaultOn ==
    CyclicRead =>
        /\ cargs.given = EcOmitted => cargs.expand_cyclic = EcBool(TRUE)
        /\ cargs.given # EcOmitted => cargs.expand_cyclic = cargs.given
        /\ wfin.connected =>
              /\ wfin.expand_cyclic = cargs.expand_cyclic
              /\ wfin.phase_angle_cyclic = cargs.phase_angle_cyclic

C21_Witness ==
    /\ CyclicRead
    /\ sim.nStages = 1
    /\ cargs.given = EcOmitted
    /\ wfin.connected
    /\ wfin.expand_cyclic = EcBool(TRUE)
    /\ outcome = "DataFrame"

\* ------------------------------------------------------------------ C22
\* the temporal arguments a, with the value of modes given as set_ids instead
AsSetIds(a) == [a EXCEPT !.set_ids = a.modes, !.modes = NoneV]

\* what the query with temporal arguments a and spatial arguments sa hands to
\* selection building
Forwarded(a, sa) == BuildSelectionKwargs(a, DefaultSetIds(a), sa)

\* C22: on ModalMechanicalSimulation set_ids is equivalent to modes: for every
\* value m, a result query with modes=m and no other temporal argument
\* forwards the same temporal criterion to selection building as the same
\* query with set_ids=m.
C22_SetIdsEquivalentToModes ==
    (SpatialRead /\ SuppliedTemporal(targs) = {"modes"})
        => /\ SuppliedTemporal(AsSetIds(targs)) = {"set_ids"}
           /\ fwd = Forwarded(AsSetIds(targs), sargs)

\* a query with modes=[] hands [] to selection building, the same query with
\* set_ids=[] would hand it None
C22_Witness ==
    /\ SpatialRead
    /\ SuppliedTemporal(targs) = {"modes"}
    /\ targs.modes = ListV(<<>>)
    /\ fwd.set_ids = ListV(<<>>)
    /\ Forwarded(AsSetIds(targs), sargs).set_ids = NoneV

\* ------------------------------------------------------------------ C27
\* C27: whenever a caller supplies set_ids (any value other than None, 0 and
\* the empty list included) as the only temporal argument of a result query,
\* the temporal criterion forwarded to selection building is exactly that
\* set_ids value; it is never replaced by modes or by nothing.
C27_SetIdsForwardedAsGiven ==
    (SpatialRead /\ SuppliedTemporal(targs) = {"set_ids"})
        => fwd.set_ids = targs.set_ids

\* set_ids=0 is given alone and None is what selection building receives
C27_Witness ==
    /\ SpatialRead
    /\ SuppliedTemporal(targs) = {"set_ids"}
    /\ targs.set_ids = IntV(0)
    /\ fwd.set_ids = NoneV

\* ------------------------------------------------------------------ C23
\* C23: a DataFrame is a read-only view: as long as it exists, no step of its
\* public operations (columns, index, axes, len, str, plot, animate) changes
\* the wrapped fields container, the row index or the column index.
C23_ReadOnlyView ==
    [][(frame.exists /\ frame'.exists) =>
          /\ frame'._fc = frame._fc
          /\ frame'._index = frame._index
          /\ frame'._columns = frame._columns]_vars

C23_Witness ==
    /\ frame.exists
    /\ dcall.op = "plot"
    /\ dcall.plotted = <<MaxFields>>
    /\ Len(frame._fc) = MaxFields
    /\ frame._str = Rendered(frame)
    /\ frame._index = "given"
    /\ frame._columns = "given"

C26_WitnessBare ==
    /\ dcall.op = "__init__"
    /\ dcall.data = "FieldsContainer"
    /\ frame.exists
    /\ frame._index = "None"
    /\ frame._columns = "None"
    /\ ~frame.has_parent

SolutionTable ==
    (<<"thermal", "static">> :> "ThermalStaticAnalysisSolution")
        @@ (<<"thermal", "transient">> :> "ThermalTransientAnalysisSolution")
        @@ (<<"mecanic", "static">> :> "StaticAnalysisSolution")
        @@ (<<"mecanic", "modal">> :> "ModalAnalysisSolution")
        @@ (<<"mecanic", "harmonic">> :> "HarmonicAnalysisSolution")
        @@ (<<"mecanic", "transient">> :> "TransientAnalysisSolution")

\* C24: load_solution dispatches on the pair (physics type, analysis type)
\* alone: the six pairs of the table return their solution class; every other
\* pair (thermal with modal or harmonic, another analysis type, another
\* physics type) raises an exception and returns no solution object.
C24_DispatchOnTypePair ==
    ld.pc = "done" =>
        LET pair == <<ld.physics_type, ld.analysis_type>>
        IN  IF pair \in DOMAIN SolutionTable
                THEN ld.ret = SolutionTable[pair] /\ ld.raised = "none"
                ELSE ld.ret = "None" /\ ld.raised = "Exception"

C24_Witness ==
    /\ ld.pc = "done"
    /\ ld.physics_type = "thermal"
    /\ ld.analysis_type = "harmonic"
    /\ ld.raised = "Exception"
    /\ ld.ret = "None"

\* ------------------------------------------------------------------ C25
\* C25: a physics_type or analysis_type the caller gives is the one used for
\* dispatch: the file is not read for that type, no fallback message is
\* printed for it, and the solution returned or the exception raised is the
\* one of the given value.
C25_ExplicitTypeWins ==
    /\ (ld.physics_arg # "None" /\ ld.pc \in {"analysis", "dispatch", "done"}) =>
          /\ ld.physics_type = ld.physics_arg
          /\ "physics" \notin ld.read
          /\ "physics" \notin ld.printed
    /\ (ld.analysis_arg # "None" /\ ld.pc \in {"dispatch", "done"}) =>
          /\ ld.analysis_type = ld.analysis_arg
          /\ "analysis" \notin ld.read
          /\ "analysis" \notin ld.printed
    /\ (ld.physics_arg # "None" /\ ld.analysis_arg # "None" /\ ld.pc = "done") =>
          LET pair == <<ld.physics_arg, ld.analysis_arg>>
          IN  IF pair \in DOMAIN SolutionTable
                  THEN ld.ret = SolutionTable[pair]
                  ELSE ld.raised = "Exception"

\* both types given, the file says otherwise for one and cannot be read for
\* the other
C25_Witness ==
    /\ ld.pc = "done"
    /\ ld.physics_arg = "thermal"
    /\ ld.analysis_arg = "transient"
    /\ ld.file.physics = "mecanic"
    /\ ld.file.analysis = "unreadable"
    /\ ld.ret = "ThermalTransientAnalysisSolution"
    /\ ld.read = {}

\* ------------------------------------------------------------------ C28
\* C28: a Displacement or ComplexDisplacement result object exists only at
\* the nodal location: asked with a definition at another location, no
\* object is created, and NodalLocationError is raised when the base class
\* accepted the request.
C28_DisplacementNodalOnly ==
    ld.definition.class \in {"Displacement", "ComplexDisplacement"} =>
        /\ ld.result.created => ld.definition.location = "Nodal"
        /\ ld.definition.location # "Nodal" =>
              /\ ~ld.result.created
              /\ ld.result.raised \in {"NodalLocationError",
                                       "UnsupportedResultError"}
              /\ Registered(ld.physics_type, "U")
                    => ld.result.raised = "NodalLocationError"
        /\ ld.definition.location = "Nodal" =>
              ld.result.raised # "NodalLocationError"

C28_Witness ==
    /\ ld.definition.class = "ComplexDisplacement"
    /\ ld.definition.location = "ElementalNodal"
    /\ ld.result.raised = "NodalLocationError"
    /\ ~ld.result.created

\* ------------------------------------------------------------------ C30
\* C30: a DpfPath built from k >= 1 points that are not already a Field holds
\* a nodal vector field whose scoping ids are exactly 1..k, whether the
\* points are a list of k triples, a 2D array of k rows, or a flat list or
\* 1D array of 3*k numbers, integers as well as floats.
C30_ScopingIsOneToK ==
    (path.called /\ path.coordinates.kind # "Field"
        /\ path.coordinates.points >= 1) =>
        /\ path.built
        /\ path._field.nature = "vector"
        /\ path._field.location = "Nodal"
        /\ path._field.ids = UpTo(path.coordinates.points)

\* a flat list of 3 numbers that starts with an integer: ids 1..3 for 1 point
C30_Witness ==
    /\ path.built
    /\ path.coordinates.kind = "list"
    /\ path.coordinates.points = 1
    /\ path.coordinates.items = <<"int", "float", "float">>
    /\ path._field.ids = UpTo(3)

====
